---- MODULE Spec2Model ----
(***************************************************************************)
(* A model of rcurses' terminal session controller, src/src/screen.rs.     *)
(*                                                                         *)
(* The program state is the Screen object (an Option: the empty set, or a  *)
(* singleton holding the record of its fields), the line-discipline        *)
(* attributes the kernel holds for each terminal, and the history of what  *)
(* the process did: every method call, every device call with its outcome, *)
(* and every text handed to print!/println!.                               *)
(*                                                                         *)
(* print! appends to the process's buffered standard output; the model     *)
(* records the text at the moment of the print! call.  Device calls        *)
(* (open, ioctl, tcgetattr, tcsetattr, flush) succeed or fail as the       *)
(* environment decides.                                                    *)
(***************************************************************************)
EXTENDS Integers, Sequences, FiniteSets, TLC

\* ---------------------------------------------------------------- bounds
\* Number of method calls made on a live Screen before it is dropped.
MaxOps == 2
\* The window size the kernel reports for the terminal.
TermRows == 24
TermCols == 80

\* ------------------------------------------------------------- constants
STDOUT_FILENO == 1
TCSANOW == 0

ESCAPE == "ESC"
BEL == "BEL"

\* ------------------------------------------------------------ the devices
\* "ctty" is the controlling terminal, /dev/tty.  Standard output is attached
\* to it, to another terminal, or to something that is not a terminal.
Ttys == {"ctty", "other"}
StdoutTargets == Ttys \cup {"notty"}

\* A Termios value, as the set of the flags that are set in it.
Flags == {"ICRNL", "IXON", "OPOST", "ECHO", "ICANON", "ISIG", "IEXTEN", "PARENB", "CS8"}
Cooked == {"ICRNL", "IXON", "OPOST", "ECHO", "ICANON", "ISIG", "IEXTEN", "CS8"}
AlreadyRaw == {"CS8"}
SevenBit == {"OPOST", "ECHO", "ICANON", "PARENB"}
InitialConfigs == {Cooked, AlreadyRaw, SevenBit}

CursorState == {"Solid", "Blinking", "Off"}
ModeState == {"Default", "Cbreak", "Raw"}

\* Arguments the hosting program passes.
CoordValues == {0, 65535}
Titles == {"demo"}

VARIABLES
    phase,        \* where the hosting program is in the Screen's life
    stdout_tty,   \* what file descriptor 1 is attached to
    attr,         \* the attributes each terminal currently holds
    pre,          \* the attributes each terminal held before Screen::new
    screen,       \* Option<Screen>: {} or {the Screen record}
    trace,        \* history of calls, device calls and prints
    nops          \* method calls made on the live Screen

vars == <<phase, stdout_tty, attr, pre, screen, trace, nops>>

\* ----------------------------------------------------------------- events
Ev(k, v, t) == [k |-> k, v |-> v, t |-> t]
Call(name) == Ev("call", name, {})
Ret(v) == Ev("ret", v, {})
Sys(name, ok) == Ev(name, IF ok THEN "ok" ELSE "err", {})
Emit(s) == Ev("print", s, {})
Panic(why) == Ev("panic", why, {})

Self == CHOOSE s \in screen : TRUE

\* The terminal a file descriptor of this process refers to.
FdTty(fd) == IF fd = STDOUT_FILENO THEN stdout_tty ELSE "ctty"

\* ------------------------------------------------------- library routines
\* termios::cfmakeraw: clears input/output translation, echo, canonical mode,
\* signal generation, extended processing and parity; sets 8-bit characters.
cfmakeraw(t) ==
    (t \ {"ICRNL", "IXON", "OPOST", "ECHO", "ICANON", "ISIG", "IEXTEN", "PARENB"})
        \cup {"CS8"}

\* termios::tcsetattr(fd, TCSANOW, t): on success the terminal behind fd holds t.
tcsetattr(fd, action, t, a, ok) ==
    IF ok /\ FdTty(fd) \in Ttys
    THEN [err |-> FALSE, attr |-> [a EXCEPT ![FdTty(fd)] = t],
          ev |-> <<Ev("tcsetattr", "ok", t)>>]
    ELSE [err |-> TRUE, attr |-> a, ev |-> <<Ev("tcsetattr", "err", t)>>]

\* ------------------------------------------------------- TermDim::query
\* e.open1, e.ioctl: whether the open and the ioctl succeed; e.dim: what the
\* caller reads back from `ws`.  The last event records what query returned.
\* query ignoring the ioctl's return value: the untouched (0, 0) is returned.
query_ignores_ioctl_error(e) ==
    IF ~e.open1
    THEN [res |-> "None", dim |-> [height |-> 0, width |-> 0],
          ev |-> <<Sys("open", FALSE), Ev("query", "None", {})>>]
    ELSE [res |-> "Some",
          dim |-> IF e.ioctl THEN e.dim ELSE [height |-> 0, width |-> 0],
          ev |-> <<Sys("open", TRUE), Sys("ioctl", e.ioctl), Sys("close", TRUE),
                   Ev("query", "Some", {})>>]

query(e) ==
    IF ~e.open1
    THEN [res |-> "None", dim |-> [height |-> 0, width |-> 0],
          ev |-> <<Sys("open", FALSE), Ev("query", "None", {})>>]
    ELSE IF ~e.ioctl
    THEN [res |-> "None", dim |-> [height |-> 0, width |-> 0],
          ev |-> <<Sys("open", TRUE), Sys("ioctl", FALSE), Sys("close", TRUE),
                   Ev("query", "None", {})>>]
    ELSE [res |-> "Some", dim |-> e.dim,
          ev |-> <<Sys("open", TRUE), Sys("ioctl", TRUE), Sys("close", TRUE),
                   Ev("query", "Some", {})>>]

\* `ws` is an immutable (0, 0) the ioctl writes through: the build may read
\* back the kernel's values or the constant it was initialised with.
DimOutcomes ==
    {[height |-> TermRows, width |-> TermCols], [height |-> 0, width |-> 0]}

\* ---------------------------------------------------------- Screen::new
turn_on == ESCAPE \o "7" \o ESCAPE \o "[?1049h"
turn_off == ESCAPE \o "[2J" \o ESCAPE \o "[?1049l" \o ESCAPE \o "8"

NewEnv ==
    [open1 : BOOLEAN, ioctl : BOOLEAN, dim : DimOutcomes,
     open2 : BOOLEAN, from_fd : BOOLEAN, get1 : BOOLEAN, get2 : BOOLEAN]

new(e, a) ==
    IF stdout_tty \notin Ttys
    THEN [res |-> "None", self |-> {}, ev |-> <<Sys("isatty", FALSE)>>]
    ELSE LET q == query(e) IN
    IF q.res = "None"
    THEN [res |-> "panic", self |-> {},
          ev |-> <<Sys("isatty", TRUE)>> \o q.ev \o <<Panic("unwrap")>>]
    ELSE IF ~e.open2
    THEN [res |-> "None", self |-> {},
          ev |-> <<Sys("isatty", TRUE)>> \o q.ev \o <<Sys("open", FALSE)>>]
    ELSE IF ~e.from_fd
    THEN [res |-> "None", self |-> {},
          ev |-> <<Sys("isatty", TRUE)>> \o q.ev
                 \o <<Sys("open", TRUE), Sys("tcgetattr", FALSE), Sys("close", TRUE)>>]
    ELSE LET term_state == a["ctty"]
             out == [dims |-> q.dim,
                     cur_pos |-> [height |-> 0, width |-> 0],
                     term_original |-> term_state,
                     term_settings |-> term_state,
                     term_descript |-> STDOUT_FILENO,
                     cursor_state |-> "Blinking",
                     state_mode |-> "Default"]
             head == <<Sys("isatty", TRUE)>> \o q.ev
                     \o <<Sys("open", TRUE), Sys("tcgetattr", TRUE)>>
         IN
    IF ~e.get1
    THEN [res |-> "None", self |-> {},
          ev |-> head \o <<Sys("tcgetattr", FALSE), Emit("FAILURE!\n"),
                           Sys("close", TRUE)>>]
    ELSE IF ~e.get2
    THEN [res |-> "None", self |-> {},
          ev |-> head \o <<Sys("tcgetattr", TRUE), Sys("tcgetattr", FALSE),
                           Emit("FAILURE!\n"), Sys("close", TRUE)>>]
    ELSE [res |-> "Some",
          self |-> {[out EXCEPT !.term_original = a[FdTty(out.term_descript)],
                                !.term_settings = a[FdTty(out.term_descript)]]},
          ev |-> head \o <<Sys("tcgetattr", TRUE), Sys("tcgetattr", TRUE),
                           Emit(turn_on), Sys("close", TRUE)>>]


\* move_cursor keeping the cursor inside the terminal's dimensions.
move_cursor_clamped(self, y, x) ==
    LET cy == IF y > self.dims.height THEN self.dims.height ELSE y
        cx == IF x > self.dims.width THEN self.dims.width ELSE x
    IN [self |-> [self EXCEPT !.cur_pos = [height |-> cy, width |-> cx]],
        ev |-> <<Emit(ESCAPE \o "[" \o ToString(cy) \o ";" \o ToString(cx) \o "H")>>]

\* ------------------------------------------------------ Screen's methods
move_cursor(self, y, x) ==
    [self |-> [self EXCEPT !.cur_pos = [height |-> y, width |-> x]],
     ev |-> <<Emit(ESCAPE \o "[" \o ToString(y) \o ";" \o ToString(x) \o "H")>>]

set_title(self, title) ==
    [self |-> self, ev |-> <<Emit(ESCAPE \o "]2;" \o title \o BEL)>>]

is_blinking(c) == c = "Blinking"
is_off(c) == c = "Off"

\* set_cursor without the "is it already so" tests.
set_cursor_always_prints(self, flag) ==
    CASE flag = "Solid" -> [self |-> self, ev |-> <<>>]
      [] flag = "Blinking" ->
            [self |-> [self EXCEPT !.cursor_state = flag],
             ev |-> <<Emit(ESCAPE \o "[?25h")>>]
      [] flag = "Off" ->
            [self |-> [self EXCEPT !.cursor_state = flag],
             ev |-> <<Emit(ESCAPE \o "[?25l")>>]


\* set_cursor recording Solid although it has no sequence to print for it.
set_cursor_solid_records(self, flag) ==
    CASE flag = "Solid" -> [self |-> [self EXCEPT !.cursor_state = flag], ev |-> <<>>]
      [] flag = "Blinking" ->
            [self |-> [self EXCEPT !.cursor_state = flag],
             ev |-> IF ~is_blinking(self.cursor_state)
                    THEN <<Emit(ESCAPE \o "[?25h")>> ELSE <<>>]
      [] flag = "Off" ->
            [self |-> [self EXCEPT !.cursor_state = flag],
             ev |-> IF ~is_off(self.cursor_state)
                    THEN <<Emit(ESCAPE \o "[?25l")>> ELSE <<>>]

set_cursor(self, flag) ==
    CASE flag = "Solid" -> [self |-> self, ev |-> <<>>]
      [] flag = "Blinking" ->
            [self |-> [self EXCEPT !.cursor_state = flag],
             ev |-> IF ~is_blinking(self.cursor_state)
                    THEN <<Emit(ESCAPE \o "[?25h")>> ELSE <<>>]
      [] flag = "Off" ->
            [self |-> [self EXCEPT !.cursor_state = flag],
             ev |-> IF ~is_off(self.cursor_state)
                    THEN <<Emit(ESCAPE \o "[?25l")>> ELSE <<>>]

update_term(self, a, ok) ==
    LET r == tcsetattr(self.term_descript, TCSANOW, self.term_settings, a, ok)
    IN [self |-> self, ret |-> IF r.err THEN "None" ELSE "Some",
        attr |-> r.attr, ev |-> r.ev]

\* set_mode recording the requested mode whatever update_term returned.
set_mode_always_records(self, flag, a, ok) ==
    LET out == CASE flag = "Default" -> [self |-> self, ret |-> "None",
                                         attr |-> a, ev |-> <<>>]
                 [] flag = "Cbreak" -> [self |-> self, ret |-> "None",
                                        attr |-> a, ev |-> <<>>]
                 [] flag = "Raw" ->
                        update_term([self EXCEPT !.term_settings = cfmakeraw(@)], a, ok)
    IN [out EXCEPT !.self = [out.self EXCEPT !.state_mode = flag]]

\* set_mode applying the working configuration without cfmakeraw.
set_mode_skips_makeraw(self, flag, a, ok) ==
    LET out == CASE flag = "Default" -> [self |-> self, ret |-> "None",
                                         attr |-> a, ev |-> <<>>]
                 [] flag = "Cbreak" -> [self |-> self, ret |-> "None",
                                        attr |-> a, ev |-> <<>>]
                 [] flag = "Raw" -> update_term(self, a, ok)
    IN IF out.ret = "Some"
       THEN [out EXCEPT !.self = [out.self EXCEPT !.state_mode = flag]]
       ELSE out


\* set_mode with the Default branch implemented as a restore of the original.
set_mode_default_restores(self, flag, a, ok) ==
    LET out == CASE flag = "Default" ->
                        update_term([self EXCEPT !.term_settings = self.term_original],
                                    a, ok)
                 [] flag = "Cbreak" -> [self |-> self, ret |-> "None",
                                        attr |-> a, ev |-> <<>>]
                 [] flag = "Raw" ->
                        update_term([self EXCEPT !.term_settings = cfmakeraw(@)], a, ok)
    IN IF out.ret = "Some"
       THEN [out EXCEPT !.self = [out.self EXCEPT !.state_mode = flag]]
       ELSE out


\* set_mode making the original configuration raw along with the working one.
set_mode_raws_original(self, flag, a, ok) ==
    LET out == CASE flag = "Default" -> [self |-> self, ret |-> "None",
                                         attr |-> a, ev |-> <<>>]
                 [] flag = "Cbreak" -> [self |-> self, ret |-> "None",
                                        attr |-> a, ev |-> <<>>]
                 [] flag = "Raw" ->
                        update_term([self EXCEPT !.term_settings = cfmakeraw(@),
                                                 !.term_original = cfmakeraw(@)], a, ok)
    IN IF out.ret = "Some"
       THEN [out EXCEPT !.self = [out.self EXCEPT !.state_mode = flag]]
       ELSE out


\* set_mode putting the working configuration back when tcsetattr rejects it.
set_mode_rollback(self, flag, a, ok) ==
    LET out == CASE flag = "Default" -> [self |-> self, ret |-> "None",
                                         attr |-> a, ev |-> <<>>]
                 [] flag = "Cbreak" -> [self |-> self, ret |-> "None",
                                        attr |-> a, ev |-> <<>>]
                 [] flag = "Raw" ->
                        update_term([self EXCEPT !.term_settings = cfmakeraw(@)], a, ok)
    IN IF out.ret = "Some"
       THEN [out EXCEPT !.self = [out.self EXCEPT !.state_mode = flag]]
       ELSE [out EXCEPT !.self = self]

set_mode(self, flag, a, ok) ==
    LET out == CASE flag = "Default" -> [self |-> self, ret |-> "None",
                                         attr |-> a, ev |-> <<>>]
                 [] flag = "Cbreak" -> [self |-> self, ret |-> "None",
                                        attr |-> a, ev |-> <<>>]
                 [] flag = "Raw" ->
                        update_term([self EXCEPT !.term_settings = cfmakeraw(@)], a, ok)
    IN IF out.ret = "Some"
       THEN [out EXCEPT !.self = [out.self EXCEPT !.state_mode = flag]]
       ELSE out

\* set_screen_default applying the working configuration as it stands.
set_screen_default_no_copy(self, a, ok) ==
    update_term(self, a, ok)


\* set_screen_default also resetting the recorded mode once the restore is
\* accepted.
set_screen_default_resets_mode(self, a, ok) ==
    LET r == update_term([self EXCEPT !.term_settings = self.term_original], a, ok)
    IN IF r.ret = "Some"
       THEN [r EXCEPT !.self = [r.self EXCEPT !.state_mode = "Default"]]
       ELSE r

set_screen_default(self, a, ok) ==
    update_term([self EXCEPT !.term_settings = self.term_original], a, ok)

\* stdout().flush().unwrap()
flush(ok) ==
    IF ok THEN [panic |-> FALSE, ev |-> <<Sys("flush", TRUE)>>]
    ELSE [panic |-> TRUE, ev |-> <<Sys("flush", FALSE), Panic("unwrap")>>]

\* drop with set_screen_default().unwrap(): a failed restore panics at once.
drop_unwrap_restore(self, a, okSet, okFlush) ==
    LET c == set_cursor(self, "Blinking")
        d == set_screen_default(c.self, a, okSet)
        f == flush(okFlush)
    IN IF d.ret = "None"
       THEN [attr |-> d.attr, panic |-> TRUE,
             ev |-> c.ev \o d.ev \o <<Panic("unwrap")>>]
       ELSE [attr |-> d.attr, panic |-> f.panic,
             ev |-> c.ev \o d.ev \o <<Emit(turn_off)>> \o f.ev]

\* drop leaving the alternate screen before it restores the line discipline.
drop_exit_first(self, a, okSet, okFlush) ==
    LET c == set_cursor(self, "Blinking")
        d == set_screen_default(c.self, a, okSet)
        f == flush(okFlush)
    IN [attr |-> d.attr, panic |-> f.panic,
        ev |-> c.ev \o <<Emit(turn_off)>> \o d.ev \o f.ev]


\* drop without the set_cursor(Blinking) call.
drop_no_cursor(self, a, okSet, okFlush) ==
    LET d == set_screen_default(self, a, okSet)
        f == flush(okFlush)
    IN [attr |-> d.attr, panic |-> f.panic,
        ev |-> d.ev \o <<Emit(turn_off)>> \o f.ev]

\* drop showing the cursor only once the alternate screen has been left.
drop_cursor_after_exit(self, a, okSet, okFlush) ==
    LET c == set_cursor(self, "Blinking")
        d == set_screen_default(c.self, a, okSet)
        f == flush(okFlush)
    IN [attr |-> d.attr, panic |-> f.panic,
        ev |-> d.ev \o <<Emit(turn_off)>> \o c.ev \o f.ev]

\* impl Drop for Screen
drop(self, a, okSet, okFlush) ==
    LET c == set_cursor(self, "Blinking")
        d == set_screen_default(c.self, a, okSet)
        f == flush(okFlush)
    IN [attr |-> d.attr, panic |-> f.panic,
        ev |-> c.ev \o d.ev \o <<Emit(turn_off)>> \o f.ev]

\* ---------------------------------------------------------------- actions
Init ==
    /\ phase = "init"
    /\ stdout_tty \in StdoutTargets
    /\ attr \in [Ttys -> InitialConfigs]
    \* The terminal standard output is not attached to is only ever read by
    \* Termios::from_fd, whose result new overwrites: one configuration of it
    \* is enough.
    /\ \A t \in Ttys : t # stdout_tty => attr[t] = Cooked
    /\ pre = attr
    /\ screen = {}
    /\ trace = <<>>
    /\ nops = 0

Construct ==
    /\ phase = "init"
    /\ \E e \in NewEnv :
        LET r == new(e, attr) IN
        /\ screen' = r.self
        /\ trace' = <<Call("new")>> \o r.ev \o
                    (IF r.res = "panic" THEN <<>> ELSE <<Ret(r.res)>>)
        /\ phase' = CASE r.res = "Some" -> "live"
                      [] r.res = "None" -> "no_session"
                      [] r.res = "panic" -> "new_panicked"
    /\ UNCHANGED <<stdout_tty, attr, pre, nops>>

Live == phase = "live" /\ nops < MaxOps

\* The call event of move_cursor(y, x), naming its arguments.
MoveCall(y, x) == "move_cursor:" \o ToString(y) \o "," \o ToString(x)

MoveCursor ==
    /\ Live
    /\ \E y \in CoordValues, x \in CoordValues :
        LET r == move_cursor(Self, y, x) IN
        /\ screen' = {r.self}
        /\ trace' = trace \o <<Call(MoveCall(y, x))>> \o r.ev \o <<Ret("unit")>>
    /\ nops' = nops + 1
    /\ UNCHANGED <<phase, stdout_tty, attr, pre>>

SetTitle ==
    /\ Live
    /\ \E title \in Titles :
        LET r == set_title(Self, title) IN
        /\ screen' = {r.self}
        /\ trace' = trace \o <<Call("set_title")>> \o r.ev \o <<Ret("unit")>>
    /\ nops' = nops + 1
    /\ UNCHANGED <<phase, stdout_tty, attr, pre>>

SetCursor ==
    /\ Live
    /\ \E flag \in CursorState :
        LET r == set_cursor(Self, flag) IN
        /\ screen' = {r.self}
        /\ trace' = trace \o <<Call("set_cursor:" \o flag)>> \o r.ev \o <<Ret("unit")>>
    /\ nops' = nops + 1
    /\ UNCHANGED <<phase, stdout_tty, attr, pre>>

SetMode ==
    /\ Live
    /\ \E flag \in ModeState, ok \in BOOLEAN :
        LET r == set_mode(Self, flag, attr, ok) IN
        /\ screen' = {r.self}
        /\ attr' = r.attr
        /\ trace' = trace \o <<Call("set_mode:" \o flag)>> \o r.ev \o <<Ret(r.ret)>>
    /\ nops' = nops + 1
    /\ UNCHANGED <<phase, stdout_tty, pre>>

SetScreenDefault ==
    /\ Live
    /\ \E ok \in BOOLEAN :
        LET r == set_screen_default(Self, attr, ok) IN
        /\ screen' = {r.self}
        /\ attr' = r.attr
        /\ trace' = trace \o <<Call("set_screen_default")>> \o r.ev \o <<Ret(r.ret)>>
    /\ nops' = nops + 1
    /\ UNCHANGED <<phase, stdout_tty, pre>>

\* A failed flush panics; the Screen is then dropped while the stack unwinds.
Flush ==
    /\ Live
    /\ \E ok \in BOOLEAN :
        LET r == flush(ok) IN
        /\ trace' = trace \o <<Call("flush")>> \o r.ev \o
                    (IF r.panic THEN <<>> ELSE <<Ret("unit")>>)
        /\ phase' = IF r.panic THEN "unwinding" ELSE phase
    /\ nops' = nops + 1
    /\ UNCHANGED <<stdout_tty, attr, pre, screen>>

\* The Screen goes out of scope, or the stack unwinds past it.  A panic in
\* drop while unwinding aborts the process.
Drop ==
    /\ phase \in {"live", "unwinding"}
    /\ \E okSet \in BOOLEAN, okFlush \in BOOLEAN :
        LET r == drop(Self, attr, okSet, okFlush) IN
        /\ attr' = r.attr
        /\ trace' = trace \o <<Call("drop")>> \o r.ev \o
                    (IF r.panic THEN <<>> ELSE <<Ret("unit")>>)
        /\ phase' = CASE ~r.panic -> "torn_down"
                      [] r.panic /\ phase = "live" -> "drop_panicked"
                      [] r.panic /\ phase = "unwinding" -> "aborted"
    /\ screen' = {}
    /\ UNCHANGED <<stdout_tty, pre, nops>>

Next ==
    \/ Construct
    \/ MoveCursor
    \/ SetTitle
    \/ SetCursor
    \/ SetMode
    \/ SetScreenDefault
    \/ Flush
    \/ Drop

Spec == Init /\ [][Next]_vars

\* ------------------------------------------------------ reading the trace
\* The events the step under consideration appended to the trace.
Added == SubSeq(trace', Len(trace) + 1, Len(trace'))
StepOf(name) == Len(Added) > 0 /\ Added[1] = Call(name)

HasEv(seq, k, v) == \E i \in 1..Len(seq) : seq[i].k = k /\ seq[i].v = v
PrintsIn(seq) == SelectSeq(seq, LAMBDA e : e.k = "print")
CountPrint(seq, s) == Len(SelectSeq(seq, LAMBDA e : e = Emit(s)))
CallIdxs == {i \in 1..Len(trace) : trace[i].k = "call"}
\* The events of the most recent call, starting at its call event.
LastCallIdx == CHOOSE i \in CallIdxs : \A j \in CallIdxs : j <= i
LastSeg == IF CallIdxs = {} THEN <<>> ELSE SubSeq(trace, LastCallIdx, Len(trace))
LastCallIs(name) == Len(LastSeg) > 0 /\ LastSeg[1] = Call(name)

Dropped == phase \in {"torn_down", "drop_panicked", "aborted"}
ConstructFailed == phase \in {"no_session", "new_panicked"}
\* The terminal the Screen's descriptor refers to.
Dev == FdTty(STDOUT_FILENO)

show_cursor == "ESC[?25h"
hide_cursor == "ESC[?25l"
exit_sequence == "ESC[2JESC[?1049lESC8"
enter_sequence == "ESC7ESC[?1049h"

\* ------------------------------------------------------------------ C1
\* C1: whatever was done with a constructed Screen, failed set_mode(Raw)
\* calls included, the alternate-screen-exit sequence has been printed
\* exactly once when teardown is over, by teardown itself, and never before.
C1_ExitOnce ==
    /\ Dropped => /\ CountPrint(trace, exit_sequence) = 1
                  /\ LastCallIs("drop")
                  /\ CountPrint(LastSeg, exit_sequence) = 1
    /\ ~Dropped => CountPrint(trace, exit_sequence) = 0

\* Teardown is over and an earlier set_mode(Raw) had failed.
C1_Witness ==
    /\ Dropped
    /\ \E i \in 1..(Len(trace) - 2) :
        /\ trace[i] = Call("set_mode:Raw")
        /\ trace[i + 1].k = "tcsetattr" /\ trace[i + 1].v = "err"
        /\ trace[i + 2] = Ret("None")
    /\ CountPrint(trace, exit_sequence) = 1

\* ------------------------------------------------------------------ C2
\* C2: right after a set_screen_default, or a teardown, whose tcsetattr
\* succeeded, every terminal holds the attributes it held before Screen::new,
\* and the configuration that was applied is that pre-construction one.
C2_RestoreRoundTrip ==
    ((LastCallIs("set_screen_default") \/ LastCallIs("drop"))
        /\ HasEv(LastSeg, "tcsetattr", "ok"))
    => /\ attr = pre
       /\ \A i \in 1..Len(LastSeg) :
            LastSeg[i].k = "tcsetattr" => LastSeg[i].t = pre[Dev]

\* A successful restore that follows a successful switch to raw mode, on a
\* terminal that was not raw to begin with.
C2_Witness ==
    /\ LastCallIs("set_screen_default")
    /\ HasEv(LastSeg, "tcsetattr", "ok")
    /\ \E i \in 1..(Len(trace) - 1) :
        trace[i] = Call("set_mode:Raw") /\ trace[i + 1].v = "ok"
    /\ "ICANON" \in pre[Dev]
    /\ attr = pre

\* ------------------------------------------------------------------ C3
\* C3 (as claimed): when Screen::new does not return a Screen, nothing has
\* been printed to standard output.
C3_FailedConstructionPrintsNothing ==
    ConstructFailed => PrintsIn(trace) = <<>>

\* ------------------------------------------------------------------ C4
\* C4 (as claimed): every failed construction (not a terminal, open failure,
\* attribute read failure, dimension query failure) ends by returning None,
\* never by a panic.
C4_FailureReturnsNone ==
    ConstructFailed =>
        /\ phase = "no_session"
        /\ trace[Len(trace)] = Ret("None")
        /\ ~HasEv(trace, "panic", "unwrap")

\* ------------------------------------------------------------------ C5
\* C5: a set_mode(Raw) whose tcsetattr is rejected returns None and leaves
\* state_mode as it was before the call.
C5_RawRejectedKeepsMode ==
    [][(StepOf("set_mode:Raw") /\ HasEv(Added, "tcsetattr", "err"))
        => /\ Added[Len(Added)] = Ret("None")
           /\ Self'.state_mode = Self.state_mode]_vars

\* A rejected set_mode(Raw) on a Screen whose recorded mode was already Raw.
C5_Witness ==
    /\ phase = "live"
    /\ LastCallIs("set_mode:Raw")
    /\ HasEv(LastSeg, "tcsetattr", "err")
    /\ Self.state_mode = "Raw"

\* ------------------------------------------------------------------ C6
\* C6: a set_mode(Raw) whose tcsetattr is accepted returns Some, records Raw,
\* and leaves the working configuration and the terminal's attributes both
\* equal to the original configuration with ICANON, ECHO, ISIG, IEXTEN (and
\* the translation and parity flags) cleared and CS8 set.
C6_RawAccepted ==
    [][(StepOf("set_mode:Raw") /\ HasEv(Added, "tcsetattr", "ok"))
        => /\ Added[Len(Added)] = Ret("Some")
           /\ Self'.state_mode = "Raw"
           /\ Self'.term_settings \cap {"ICANON", "ECHO", "ISIG", "IEXTEN"} = {}
           /\ Self'.term_settings =
                (Self.term_original \ {"ICRNL", "IXON", "OPOST", "ECHO", "ICANON",
                                       "ISIG", "IEXTEN", "PARENB"}) \cup {"CS8"}
           /\ attr'[Dev] = Self'.term_settings
           /\ Self'.term_original = Self.term_original]_vars

\* An accepted set_mode(Raw) on a terminal that was in canonical mode.
C6_Witness ==
    /\ phase = "live"
    /\ LastCallIs("set_mode:Raw")
    /\ HasEv(LastSeg, "tcsetattr", "ok")
    /\ "ICANON" \in Self.term_original
    /\ "ICANON" \notin attr[Dev]
    /\ Self.state_mode = "Raw"

\* ------------------------------------------------------------------ C7
\* The cursor state the last show/hide sequence printed so far left the
\* terminal in ("Blinking" when none was printed).
LastCursorOnTerminal ==
    LET vis == SelectSeq(trace, LAMBDA e : e = Emit(show_cursor) \/ e = Emit(hide_cursor))
    IN IF vis = <<>> \/ vis[Len(vis)] = Emit(show_cursor) THEN "Blinking" ELSE "Off"

\* C7 (as claimed): on a live Screen, state_mode is Raw only if the terminal
\* holds the raw configuration, and cursor_state is what the last show/hide
\* sequence printed left on the terminal.
C7_RecordedStateMatchesTerminal ==
    phase = "live" =>
        /\ Self.state_mode = "Raw" =>
             attr[Dev] = (Self.term_original \ {"ICRNL", "IXON", "OPOST", "ECHO",
                            "ICANON", "ISIG", "IEXTEN", "PARENB"}) \cup {"CS8"}
        /\ Self.cursor_state = LastCursorOnTerminal

\* ------------------------------------------------------------------ C8
\* C8: set_cursor(Blinking) prints the show-cursor sequence, and
\* set_cursor(Off) the hide-cursor sequence, exactly when cursor_state is not
\* already the requested one; so a second identical call in a row prints
\* nothing.
C8_CursorIdempotent ==
    [][/\ StepOf("set_cursor:Blinking") =>
            /\ PrintsIn(Added) = IF Self.cursor_state # "Blinking"
                                 THEN <<Emit(show_cursor)>> ELSE <<>>
            /\ LastCallIs("set_cursor:Blinking") => PrintsIn(Added) = <<>>
       /\ StepOf("set_cursor:Off") =>
            /\ PrintsIn(Added) = IF Self.cursor_state # "Off"
                                 THEN <<Emit(hide_cursor)>> ELSE <<>>
            /\ LastCallIs("set_cursor:Off") => PrintsIn(Added) = <<>>]_vars

\* set_cursor(Off) called twice in a row, with one hide-cursor sequence printed.
C8_Witness ==
    /\ phase = "live"
    /\ LastSeg = <<Call("set_cursor:Off"), Ret("unit")>>
    /\ LastCallIdx > 3
    /\ SubSeq(trace, LastCallIdx - 3, LastCallIdx - 1)
         = <<Call("set_cursor:Off"), Emit(hide_cursor), Ret("unit")>>
    /\ CountPrint(trace, hide_cursor) = 1

\* ------------------------------------------------------------------ C9
\* C9: teardown does, in this order and whatever each step's outcome: show the
\* cursor if it is not recorded as blinking, call tcsetattr with the original
\* configuration, print the alternate-screen-exit sequence, flush.
C9_TeardownOrder ==
    [][StepOf("drop") =>
        \E okSet \in {"ok", "err"}, okFlush \in {"ok", "err"} :
            SubSeq(Added, 1, Len(Added) - 1) =
                <<Call("drop")>>
                \o (IF Self.cursor_state # "Blinking"
                    THEN <<Emit(show_cursor)>> ELSE <<>>)
                \o <<Ev("tcsetattr", okSet, Self.term_original),
                     Emit(exit_sequence),
                     Ev("flush", okFlush, {})>>]_vars

\* A teardown whose restore failed, on a Screen whose cursor was hidden: the
\* exit sequence and the flush follow the failed tcsetattr.
C9_Witness ==
    /\ Dropped
    /\ Len(LastSeg) >= 5
    /\ LastSeg[2] = Emit(show_cursor)
    /\ LastSeg[3].k = "tcsetattr" /\ LastSeg[3].v = "err"
    /\ LastSeg[4] = Emit(exit_sequence)
    /\ LastSeg[5].k = "flush"

\* ----------------------------------------------------------------- C10
\* C10 (as claimed): no failure of a teardown step surfaces: teardown never
\* panics and never aborts the process.
C10_TeardownSwallowsErrors ==
    /\ phase \notin {"drop_panicked", "aborted"}
    /\ LastCallIs("drop") => ~HasEv(LastSeg, "panic", "unwrap")

\* ----------------------------------------------------------------- C11
\* C11: set_mode(Default) and set_mode(Cbreak) return None, make no device
\* call, and change neither the Screen (state_mode, term_settings and all its
\* other fields) nor any terminal's attributes.
C11_DefaultCbreakNoOp ==
    [][\A flag \in {"Default", "Cbreak"} :
        StepOf("set_mode:" \o flag) =>
            /\ Added = <<Call("set_mode:" \o flag), Ret("None")>>
            /\ screen' = screen
            /\ attr' = attr]_vars

\* set_mode(Default) just returned on a Screen whose recorded mode is Raw: the
\* recorded mode is still Raw and the terminal still raw.
C11_Witness ==
    /\ phase = "live"
    /\ LastSeg = <<Call("set_mode:Default"), Ret("None")>>
    /\ Self.state_mode = "Raw"
    /\ "ICANON" \in Self.term_original
    /\ "ICANON" \notin attr[Dev]

\* ----------------------------------------------------------------- C12
\* The events of the TermDim::query call made by Screen::new: they follow the
\* call and isatty events and end with the event recording query's result.
QueryIdxs == {i \in 1..Len(trace) : trace[i].k = "query"}
QueryCalls(i) == SubSeq(trace, 3, i - 1)

\* C12: whenever query's open of the terminal device or its window-size
\* ioctl failed, query returned None (and only then), so no dimension value,
\* zero or otherwise, reached a Screen.
C12_QueryUnavailable ==
    \A i \in QueryIdxs :
        LET failed == HasEv(QueryCalls(i), "open", "err")
                      \/ HasEv(QueryCalls(i), "ioctl", "err")
        IN /\ failed <=> trace[i].v = "None"
           /\ failed => screen = {}

\* A query whose ioctl reported an error: it returned None and new panicked.
C12_Witness ==
    /\ QueryIdxs # {}
    /\ \E i \in QueryIdxs :
        /\ HasEv(QueryCalls(i), "ioctl", "err")
        /\ trace[i].v = "None"
    /\ phase = "new_panicked"

\* ----------------------------------------------------------------- C13
\* C13: move_cursor(y, x) records cur_pos = (y, x) and prints ESC[y;xH with
\* the same two numbers, whatever the terminal's dimensions; construction
\* starts cur_pos at (0, 0) and no other call changes it, so cur_pos is always
\* the arguments of the latest move_cursor, or (0, 0).
C13_MoveCursorExact ==
    [][/\ \A y \in CoordValues, x \in CoordValues :
            StepOf(MoveCall(y, x)) =>
                /\ Self'.cur_pos = [height |-> y, width |-> x]
                /\ PrintsIn(Added) =
                     <<Emit("ESC[" \o ToString(y) \o ";" \o ToString(x) \o "H")>>
       /\ (StepOf("new") /\ screen' # {}) =>
            Self'.cur_pos = [height |-> 0, width |-> 0]
       /\ (screen # {} /\ screen' # {}
             /\ \A y \in CoordValues, x \in CoordValues : ~StepOf(MoveCall(y, x)))
            => Self'.cur_pos = Self.cur_pos]_vars

\* A move beyond the terminal's last row and column, followed by another call:
\* the out-of-range position is still the recorded one.
C13_Witness ==
    /\ phase = "live"
    /\ Self.cur_pos = [height |-> 65535, width |-> 65535]
    /\ Self.dims = [height |-> TermRows, width |-> TermCols]
    /\ HasEv(trace, "call", MoveCall(65535, 65535))
    /\ HasEv(trace, "print", "ESC[65535;65535H")
    /\ ~LastCallIs(MoveCall(65535, 65535))

\* ----------------------------------------------------------------- C14
\* C14: term_original is set by Screen::new, to the attributes the terminal
\* behind the Screen's descriptor held then, and no later call changes it,
\* whether the call succeeds, fails or panics; teardown still restores that
\* very value.
C14_OriginalImmutable ==
    [][/\ (StepOf("new") /\ screen' # {}) => Self'.term_original = pre[Dev]
       /\ (screen # {} /\ screen' # {}) => Self'.term_original = Self.term_original
       /\ StepOf("drop") =>
            \A i \in 1..Len(Added) :
                Added[i].k = "tcsetattr" => Added[i].t = pre[Dev]]_vars

\* Two calls later, one of them an accepted set_mode(Raw), the working
\* configuration differs from the original, which is still the snapshot.
C14_Witness ==
    /\ phase = "live"
    /\ nops = MaxOps
    /\ \E i \in 1..(Len(trace) - 1) :
        trace[i] = Call("set_mode:Raw") /\ trace[i + 1].v = "ok"
    /\ Self.term_settings # Self.term_original
    /\ Self.term_original = pre[Dev]

\* ----------------------------------------------------------------- C15
\* C15: set_cursor(Solid) prints nothing and leaves the Screen as it was;
\* cursor_state is assigned only the requested Blinking or Off, so it is never
\* Solid.
C15_SolidNoOp ==
    [][/\ StepOf("set_cursor:Solid") =>
            /\ Added = <<Call("set_cursor:Solid"), Ret("unit")>>
            /\ screen' = screen
       /\ \A flag \in {"Blinking", "Off"} :
            StepOf("set_cursor:" \o flag) => Self'.cursor_state = flag
       /\ screen' # {} => Self'.cursor_state # "Solid"]_vars

\* set_cursor(Solid) just returned on a Screen whose cursor is recorded Off.
C15_Witness ==
    /\ phase = "live"
    /\ LastSeg = <<Call("set_cursor:Solid"), Ret("unit")>>
    /\ Self.cursor_state = "Off"
    /\ LastCursorOnTerminal = "Off"

\* ----------------------------------------------------------------- C16
\* C16: set_screen_default makes term_settings equal to term_original, calls
\* tcsetattr with it, and, accepted or rejected, leaves state_mode,
\* cursor_state, cur_pos (and every other field) as they were.
C16_RestoreFrame ==
    [][StepOf("set_screen_default") =>
        /\ Self'.term_settings = Self.term_original
        /\ \E v \in {"ok", "err"} :
            Added = <<Call("set_screen_default"),
                      Ev("tcsetattr", v, Self.term_original),
                      Ret(IF v = "ok" THEN "Some" ELSE "None")>>
        /\ Self'.state_mode = Self.state_mode
        /\ Self'.cursor_state = Self.cursor_state
        /\ Self'.cur_pos = Self.cur_pos
        /\ Self' = [Self EXCEPT !.term_settings = Self.term_original]]_vars

\* An accepted set_screen_default on a Screen whose recorded mode is Raw: the
\* terminal is back in canonical mode and the recorded mode is still Raw.
C16_Witness ==
    /\ phase = "live"
    /\ LastCallIs("set_screen_default")
    /\ HasEv(LastSeg, "tcsetattr", "ok")
    /\ Self.state_mode = "Raw"
    /\ "ICANON" \in attr[Dev]
    /\ Self.term_settings = Self.term_original

\* ----------------------------------------------------------------- C17
\* The files this process opened and has not closed again.
OpenFiles ==
    Len(SelectSeq(trace, LAMBDA e : e = Sys("open", TRUE)))
        - Len(SelectSeq(trace, LAMBDA e : e.k = "close"))

\* C17 (as claimed): the descriptor a live Screen hands to tcgetattr and
\* tcsetattr is the one Screen::new obtained by opening /dev/tty, not standard
\* output's, so it refers to the controlling terminal; and that file is still
\* open.
C17_DescriptorIsOpenedDevice ==
    phase = "live" =>
        /\ Self.term_descript # STDOUT_FILENO
        /\ FdTty(Self.term_descript) = "ctty"
        /\ OpenFiles > 0

\* ----------------------------------------------------------------- C18
\* Where in a sequence of events a given text is printed.
PrintIdxs(seq, s) == {i \in 1..Len(seq) : seq[i] = Emit(s)}

\* C18: once teardown is over, the last show/hide sequence in the output is
\* show-cursor; and if the last one printed before teardown was hide-cursor,
\* teardown printed show-cursor, and did so before the exit sequence.
C18_CursorShownAfterTeardown ==
    Dropped =>
        LET before == SubSeq(trace, 1, LastCallIdx - 1)
            vis == SelectSeq(before,
                     LAMBDA e : e = Emit(show_cursor) \/ e = Emit(hide_cursor))
            hidden == vis # <<>> /\ vis[Len(vis)] = Emit(hide_cursor)
        IN /\ LastCursorOnTerminal = "Blinking"
           /\ hidden => /\ PrintIdxs(LastSeg, show_cursor) # {}
                        /\ \A i \in PrintIdxs(LastSeg, show_cursor),
                              j \in PrintIdxs(LastSeg, exit_sequence) : i < j
           /\ ~hidden => PrintIdxs(LastSeg, show_cursor) = {}

\* Teardown of a Screen whose cursor was hidden by the last call before it.
C18_Witness ==
    /\ Dropped
    /\ LastCallIdx > 3
    /\ SubSeq(trace, LastCallIdx - 3, LastCallIdx - 1)
         = <<Call("set_cursor:Off"), Emit(hide_cursor), Ret("unit")>>
    /\ PrintIdxs(LastSeg, show_cursor) = {2}
    /\ LastCursorOnTerminal = "Blinking"

\* ----------------------------------------------------------------- C19
\* C19: set_mode(Raw) leaves term_settings raw whether tcsetattr accepted it
\* or not; the terminals' attributes change only when it was accepted, and
\* then the terminal behind the descriptor holds term_settings.  The same
\* equality holds after an accepted set_screen_default.
C19_WorkingConfigNotRolledBack ==
    [][/\ StepOf("set_mode:Raw") =>
            /\ Self'.term_settings =
                 (Self.term_settings \ {"ICRNL", "IXON", "OPOST", "ECHO", "ICANON",
                                        "ISIG", "IEXTEN", "PARENB"}) \cup {"CS8"}
            /\ HasEv(Added, "tcsetattr", "err") => attr' = attr
            /\ HasEv(Added, "tcsetattr", "ok") =>
                 attr' = [attr EXCEPT ![Dev] = Self'.term_settings]
       /\ (StepOf("set_screen_default") /\ HasEv(Added, "tcsetattr", "ok")) =>
            attr'[Dev] = Self'.term_settings]_vars

\* A rejected set_mode(Raw): the working configuration is raw, the terminal
\* is not, and the recorded mode is still Default.
C19_Witness ==
    /\ phase = "live"
    /\ LastCallIs("set_mode:Raw")
    /\ HasEv(LastSeg, "tcsetattr", "err")
    /\ "ICANON" \notin Self.term_settings
    /\ "ICANON" \in attr[Dev]
    /\ Self.term_settings # attr[Dev]
    /\ Self.state_mode = "Default"

\* ----------------------------------------------------------------- C20
\* C20: for a constructed Screen, the first text printed is the enter
\* sequence and it is printed once; the exit sequence is printed by teardown
\* only, once, and is then the last text printed, so every cursor-move, title,
\* show-cursor and hide-cursor sequence lies between the two.
C20_OutputBracketed ==
    (phase \in {"live", "unwinding"} \/ Dropped) =>
        LET pr == PrintsIn(trace) IN
        /\ pr # <<>> /\ pr[1] = Emit(enter_sequence)
        /\ CountPrint(trace, enter_sequence) = 1
        /\ ~Dropped => \A i \in 1..Len(pr) : pr[i] # Emit(exit_sequence)
        /\ Dropped =>
            /\ pr[Len(pr)] = Emit(exit_sequence)
            /\ \A i \in 2..(Len(pr) - 1) :
                pr[i] \notin {Emit(enter_sequence), Emit(exit_sequence)}

\* A complete run: a cursor move and a hide-cursor, then teardown showing the
\* cursor, all between the enter and the exit sequences.
C20_Witness ==
    /\ Dropped
    /\ \E y \in CoordValues, x \in CoordValues :
        PrintsIn(trace) =
            <<Emit(enter_sequence),
              Emit("ESC[" \o ToString(y) \o ";" \o ToString(x) \o "H"),
              Emit(hide_cursor), Emit(show_cursor), Emit(exit_sequence)>>

====
